---- MODULE Spec2Model ----
(***************************************************************************)
(* Model of the hourly aggregation driver of EsportsStats                  *)
(* (scraper/src/aggregator.py, scraper/src/dbinterface.py).                *)
(*                                                                         *)
(* The snapshot store (one Mongo collection) is an append-only sequence of *)
(* documents stamped with the wall clock.  The aggregate store (Postgres)  *)
(* is a set of tables; `committed` is what is durable, `conn` is what the  *)
(* driver's open connection sees (durable rows plus the rows of its own    *)
(* uncommitted transaction).                                               *)
(***************************************************************************)
EXTENDS Integers, Sequences, FiniteSets, TLC

VARIABLES clock,        \* wall clock, unix epoch seconds (time.time())
          snapshots,    \* documents of the Mongo collection, insertion order
          committed,    \* Postgres: durable rows of every table
          conn,         \* Postgres: rows visible on the driver's connection
          pc,           \* position of the driver: "idle" or "loop"
          curhrstart,   \* start of the bucket of the current iteration
          curhrend,     \* end of the bucket of the current iteration
          last,         \* now-floor computed by _agg_ts at the run's start
          runstart,     \* history: curhrstart as _agg_ts returned it
          prevfinal     \* history: curhrstart when the previous loop exited

\* what is remembered of a run for the run that follows it
VARIABLES storesame,    \* history: no document was stored since the run began
          visited,      \* history: <<curhrstart, curhrend>> of the iterations
                        \* the run has made
          aborted       \* history: <<curhrstart, curhrend>> as resolved by
                        \* the run that was aborted last, while the store is
                        \* as that run found it; <<>> otherwise

\* a caller of Aggregator.average_viewers
VARIABLES av_pc,        \* "idle", "call" (about to call) or "returned"
          av_entries,   \* the caller's list of entries
          av_given,     \* history: the list as it was passed
          av_start,     \* argument start
          av_end,       \* argument end
          av_res        \* the mapping the call returned

\* Scraper.scrape
VARIABLES sched,           \* "idle", "top", "run", "ran", "dead"
          wall,            \* time.time()
          update_interval, \* self.update_interval
          start_time,      \* local start_time
          time_to_sleep,   \* local time_to_sleep
          raised,          \* what the last self.run() raised, or "none"
          inflight,        \* calls of self.run() that have not yet returned
          prev_start       \* history: start_time of the previous iteration

\* a client of PostgresManager.store_rows
VARIABLES batch,        \* history: rows of the last store_rows call
          batchtable    \* history: tablename of the last store_rows call

drivervars == <<clock, snapshots, committed, conn, pc, curhrstart, curhrend,
                last, runstart, prevfinal>>
avgvars == <<av_pc, av_entries, av_given, av_start, av_end, av_res>>
schedvars == <<sched, wall, update_interval, start_time, time_to_sleep,
               raised, inflight, prev_start>>

\* a client of PostgresManager.game_name_to_id
VARIABLES gamename_cache, \* self.gamename_cache: name -> game_id
          gametable,      \* rows of table game: [name, game_id]
          dbqueries,      \* history: SELECTs game_name_to_id has executed
          lookup          \* history: the last call: its name, whether it
                          \* executed a SELECT, what it raised and returned

namevars == <<gamename_cache, gametable, dbqueries, lookup>>
storevars == <<batch, batchtable>>
histvars == <<storesame, visited, aborted>>

vars == <<drivervars, avgvars, schedvars, storevars, histvars, namevars>>

(***************************************************************************)
(* Bounds of the model                                                     *)
(***************************************************************************)
\* hours of wall-clock time the model covers
NumHours == 4
\* documents the snapshot store may hold
MaxSnapshots == 3

(***************************************************************************)
(* Program constants                                                       *)
(***************************************************************************)
sechr == 3600

\* Python's a << b
ShiftLeft(a, b) == a * (2 ^ b)

\* `1 << 31 - 1`: binary minus binds tighter than the shift, so this is
\* 1 << 30 = 1073741824 (10 Jan 2004), not 2^31 - 1.
NoEntrySentinel == ShiftLeft(1, 31 - 1)

tablenames == {"game", "twitch_game_vc", "twitch_stream", "twitch_channel",
               "channel_affiliation", "esports_org"}

(***************************************************************************)
(* Inputs: the modelled stretch of time starts with the hour that holds    *)
(* the sentinel, so that the clock passes it.                              *)
(***************************************************************************)
FirstHour == NoEntrySentinel \div sechr
Offsets == {0, 1800}
TimePoints == {(FirstHour + h) * sechr + o : h \in 0..(NumHours - 1),
                                             o \in Offsets}
\* the viewer-count mappings an API response may carry (possibly none)
ViewerCounts == {<<>>, (1 :> 10) @@ (2 :> 30)}

Max(S) == CHOOSE x \in S : \A y \in S : y <= x
Min(S) == CHOOSE x \in S : \A y \in S : x <= y

(***************************************************************************)
(* Aggregatable (models): a document with a timestamp and viewer counts    *)
(***************************************************************************)
timestamp(entry) == entry.timestamp
viewercounts(entry) == entry.games

\* __lt__ comparing the other way round: the sort comes out descending
Lt_reversed(a, b) == timestamp(a) > timestamp(b)

\* Aggregatable.__lt__
Lt(a, b) == timestamp(a) < timestamp(b)

\* list.sort(): stable, ascending by __lt__ (insertion sort)
RECURSIVE InsertSorted(_, _)
InsertSorted(sorted, e) ==
    IF sorted = <<>> THEN <<e>>
    ELSE IF Lt(e, sorted[Len(sorted)])
         THEN Append(InsertSorted(SubSeq(sorted, 1, Len(sorted) - 1), e),
                     sorted[Len(sorted)])
         ELSE Append(sorted, e)

RECURSIVE SortFrom(_, _, _)
SortFrom(entries, i, acc) ==
    IF i > Len(entries) THEN acc
    ELSE SortFrom(entries, i + 1, InsertSorted(acc, entries[i]))

\* average_viewers without `entries.sort()`
sort_none(entries) == entries

\* entries.sort()
sort(entries) == SortFrom(entries, 1, <<>>)

(***************************************************************************)
(* Aggregator.average_viewers                                              *)
(***************************************************************************)
\* res[name] = viewers * weight: the sum so far is overwritten
AddWeighted_assign(res, entry, weight) ==
    LET vc == viewercounts(entry)
    IN [name \in DOMAIN res \cup DOMAIN vc |->
          IF name \in DOMAIN vc THEN vc[name] * weight ELSE res[name]]

\* res[name] += viewers * weight for every name of the entry
AddWeighted(res, entry, weight) ==
    LET vc == viewercounts(entry)
    IN [name \in DOMAIN res \cup DOMAIN vc |->
          (IF name \in DOMAIN res THEN res[name] ELSE 0)
          + (IF name \in DOMAIN vc THEN vc[name] * weight ELSE 0)]

\* the loop without `last_timestamp = entry.timestamp()`
RECURSIVE Accumulate_fromstart(_, _, _, _)
Accumulate_fromstart(entries, i, last_timestamp, res) ==
    IF i > Len(entries) THEN res
    ELSE Accumulate_fromstart(entries, i + 1, last_timestamp,
                              AddWeighted(res, entries[i],
                                          timestamp(entries[i]) - last_timestamp))

\* the loop weighting the time since the previous entry by the previous
\* entry's counts (by the first entry's counts before the first entry)
RECURSIVE Accumulate_forward(_, _, _, _)
Accumulate_forward(entries, i, last_timestamp, res) ==
    IF i > Len(entries) THEN res
    ELSE Accumulate_forward(entries, i + 1, timestamp(entries[i]),
                            AddWeighted(res,
                                        entries[IF i = 1 THEN 1 ELSE i - 1],
                                        timestamp(entries[i]) - last_timestamp))

\* the loop over the sorted entries
RECURSIVE Accumulate(_, _, _, _)
Accumulate(entries, i, last_timestamp, res) ==
    IF i > Len(entries) THEN res
    ELSE Accumulate(entries, i + 1, timestamp(entries[i]),
                    AddWeighted(res, entries[i],
                                timestamp(entries[i]) - last_timestamp))

\* average_viewers without the contribution of the last entry up to `end`
average_viewers_notail(entries, start, end) ==
    LET sorted == sort(entries)
        res == Accumulate(sorted, 1, start, <<>>)
    IN IF sorted = <<>> THEN res
       ELSE [name \in DOMAIN res |-> res[name] \div (end - start)]

\* average_viewers counting the last entry over the whole period instead of
\* from its timestamp to `end`
average_viewers_tailwindow(entries, start, end) ==
    LET sorted == sort(entries)
        res == Accumulate(sorted, 1, start, <<>>)
    IN IF sorted = <<>> THEN res
       ELSE LET entry == sorted[Len(sorted)]
                tail == AddWeighted(res, entry, end - start)
            IN [name \in DOMAIN tail |-> tail[name] \div (end - start)]

\* Aggregator.average_viewers(entries, start, end)
average_viewers(entries, start, end) ==
    LET sorted == sort(entries)
        res == Accumulate(sorted, 1, start, <<>>)
    IN IF sorted = <<>> THEN res
       ELSE LET entry == sorted[Len(sorted)]
                tail == AddWeighted(res, entry, end - timestamp(entry))
            IN [name \in DOMAIN tail |-> tail[name] \div (end - start)]

\* Aggregator.epoch_to_hour
epoch_to_hour(epoch) == (epoch \div sechr) * sechr

(***************************************************************************)
(* MongoManager                                                            *)
(***************************************************************************)
\* find({'timestamp': {'$gt': start}}).sort(ASCENDING)[0], or the sentinel
first_entry_after(docs, start) ==
    LET later == {i \in 1..Len(docs) : timestamp(docs[i]) > start}
    IN IF Cardinality(later) > 0
       THEN Min({timestamp(docs[i]) : i \in later})
       ELSE NoEntrySentinel

\* the range query with the end included ('$lte')
InRange_inclusive(doc, start, end) ==
    timestamp(doc) >= start /\ timestamp(doc) <= end

\* find({'timestamp': {'$gte': start, '$lt': end}}).sort(ASCENDING)
InRange(doc, start, end) == timestamp(doc) >= start /\ timestamp(doc) < end

docsbetween(docs, start, end) ==
    sort(SelectSeq(docs, LAMBDA d : InRange(d, start, end)))

(***************************************************************************)
(* PostgresManager                                                         *)
(***************************************************************************)
\* PRIMARY KEY of each table (create_tables)
PrimaryKey(tablename, row) ==
    IF tablename = "game" THEN <<row.game_id>>
    ELSE <<row.game_id, row.epoch>>

\* the tables of the schema that the games driver reads and writes
ModelledTables == {"game", "twitch_game_vc"}

\* rows of a table, none while the table does not exist
Table(tables, t) == IF t \in DOMAIN tables THEN tables[t] ELSE {}

\* initdb with every table dropped and created again
initdb_recreate(tables) == [t \in ModelledTables |-> {}]

\* initdb: tables are created only when missing; existing rows are kept
initdb(tables) ==
    [t \in ModelledTables |-> IF t \in DOMAIN tables THEN tables[t] ELSE {}]

\* SELECT COALESCE(MAX(epoch), 0) FROM table
last_postgres_update(tables, table) ==
    IF Table(tables, table) = {} THEN 0
    ELSE Max({row.epoch : row \in Table(tables, table)})

\* INSERT ... ON CONFLICT (key) DO UPDATE: a conflicting row replaces the
\* stored one
InsertIgnore_update(tables, rows, tablename) ==
    [tables EXCEPT ![tablename] =
        {old \in @ : \A r \in rows :
            PrimaryKey(tablename, old) # PrimaryKey(tablename, r)} \cup rows]

\* INSERT ... ON CONFLICT DO NOTHING on the connection's view
\* (store_rows, the statement it executes)
InsertIgnore(tables, rows, tablename) ==
    [tables EXCEPT ![tablename] =
        @ \cup {r \in rows : \A old \in @ :
                   PrimaryKey(tablename, old) # PrimaryKey(tablename, r)}]

\* store_rows called with a table name it does not know: nothing is stored
store_rows_unknown(view, durable, rows, tablename, commit) == <<view, durable>>

\* store_rows committing after every call (commit=True as the default)
store_rows_autocommit(view, durable, rows, tablename, commit) ==
    IF rows = {} \/ tablename \notin tablenames THEN <<view, durable>>
    ELSE LET stored == InsertIgnore(view, rows, tablename)
         IN <<stored, stored>>

\* store_rows(rows, tablename, commit=False): the pair
\* <<connection view, durable rows>> after the call
store_rows(view, durable, rows, tablename, commit) ==
    IF rows = {} \/ tablename \notin tablenames THEN <<view, durable>>
    ELSE LET stored == InsertIgnore(view, rows, tablename)
         IN <<stored, IF commit THEN stored ELSE durable>>

\* rows of twitch_game_vc tagged with the bucket start
from_vcs(vcs, epoch) ==
    {[game_id |-> g, epoch |-> epoch, viewers |-> vcs[g]] : g \in DOMAIN vcs}

\* rows of game for every game seen in the responses
api_responses_to_games(apiresp) ==
    {[game_id |-> g] : g \in UNION {DOMAIN viewercounts(apiresp[i]) :
                                       i \in 1..Len(apiresp)}}

(***************************************************************************)
(* State machine                                                           *)
(***************************************************************************)
\* a fresh database: no table exists yet
NoTables == <<>>

\* no call of average_viewers is being observed
AvgIdle ==
    /\ av_pc = "idle"
    /\ av_entries = <<>>
    /\ av_given = <<>>
    /\ av_start = 0
    /\ av_end = 0
    /\ av_res = <<>>

\* no poll loop is being observed
SchedIdle ==
    /\ sched = "idle"
    /\ wall = 0
    /\ update_interval = 0
    /\ start_time = 0
    /\ time_to_sleep = 0
    /\ raised = "none"
    /\ inflight = 0
    /\ prev_start = 0

\* no game_name_to_id call is being observed
NamesIdle ==
    /\ gamename_cache = <<>>
    /\ gametable = {}
    /\ dbqueries = 0
    /\ lookup = [name |-> "none", queried |-> FALSE, raised |-> "none",
                 returned |-> {}]

\* no store_rows call is being observed
StoreIdle ==
    /\ batch = {}
    /\ batchtable = "none"

\* the aggregation driver before its first run, on a fresh database
DriverIdle ==
    /\ clock = FirstHour * sechr
    /\ snapshots = <<>>
    /\ committed = NoTables
    /\ conn = NoTables
    /\ pc = "idle"
    /\ curhrstart = 0
    /\ curhrend = 0
    /\ last = 0
    /\ runstart = 0
    /\ prevfinal = 0
    /\ storesame = TRUE
    /\ visited = <<>>
    /\ aborted = <<>>

Init == DriverIdle /\ AvgIdle /\ SchedIdle /\ StoreIdle /\ NamesIdle

\* the wall clock advances
Tick ==
    /\ \E t \in TimePoints :
          /\ t > clock
          /\ \A u \in TimePoints : u > clock => t <= u
          /\ clock' = t
    /\ UNCHANGED <<snapshots, committed, conn, pc, curhrstart, curhrend,
                   last, runstart, prevfinal>>
    /\ UNCHANGED <<avgvars, schedvars, storevars, histvars, namevars>>

\* a scraper stores an API response stamped int(time.time())
Insert ==
    /\ Len(snapshots) < MaxSnapshots
    /\ \E vc \in ViewerCounts :
          snapshots' = Append(snapshots, [timestamp |-> clock, games |-> vc])
    /\ storesame' = (pc = "idle")
    /\ aborted' = <<>>
    /\ UNCHANGED visited
    /\ UNCHANGED <<clock, committed, conn, pc, curhrstart, curhrend, last,
                   runstart, prevfinal>>
    /\ UNCHANGED <<avgvars, schedvars, storevars, namevars>>

\* variant: the window starts at the earliest entry itself, without the
\* floor to the hour
agg_ts_unfloored(tables, docs, now, table_name) ==
    LET start == last_postgres_update(tables, table_name) + sechr
        lastnow == epoch_to_hour(now)
        earliest_entry == first_entry_after(docs, start)
    IN <<earliest_entry, earliest_entry + sechr, lastnow, start>>

\* Aggregator._agg_ts: <<curhrstart, curhrend, last, start>>
agg_ts(tables, docs, now, table_name) ==
    LET start == last_postgres_update(tables, table_name) + sechr
        lastnow == epoch_to_hour(now)
        earliest_entry == first_entry_after(docs, start)
        hrstart == (earliest_entry \div sechr) * sechr
    IN <<hrstart, hrstart + sechr, lastnow, start>>

\* agg_twitch_games up to the loop: connect (initdb) and resolve the window
StartRun ==
    /\ pc = "idle"
    /\ LET tables == initdb(committed)
           ts == agg_ts(tables, snapshots, clock, "twitch_game_vc")
       IN /\ committed' = tables
          /\ conn' = tables
          /\ curhrstart' = ts[1]
          /\ curhrend' = ts[2]
          /\ last' = ts[3]
          /\ runstart' = ts[1]
    /\ pc' = "loop"
    /\ storesame' = TRUE
    /\ visited' = <<>>
    /\ aborted' = <<>>
    /\ UNCHANGED <<clock, snapshots, prevfinal>>
    /\ UNCHANGED <<avgvars, schedvars, storevars, namevars>>

\* a loop guard that lets the bucket of the current hour through
LoopGuard_current(hrend, lastnow) == hrend <= lastnow + sechr

\* loop guard of agg_twitch_games: while curhrend < last
LoopGuard(hrend, lastnow) == hrend < lastnow

\* the bucket advanced without `curhrend += 3600`
NextWindow_startonly(hrstart, hrend) == <<hrstart + 3600, hrend>>

\* the loop body without the two increments
NextWindow_none(hrstart, hrend) == <<hrstart, hrend>>

\* curhrstart += 3600; curhrend += 3600
NextWindow(hrstart, hrend) == <<hrstart + 3600, hrend + 3600>>

\* one iteration of the while loop
Iterate ==
    /\ pc = "loop"
    /\ LoopGuard(curhrend, last)
    /\ LET apiresp == docsbetween(snapshots, curhrstart, curhrend)
           vcs == from_vcs(average_viewers(apiresp, curhrstart, curhrend),
                           curhrstart)
           games == api_responses_to_games(apiresp)
           s1 == store_rows(conn, committed, games, "game", FALSE)
           s2 == store_rows(s1[1], s1[2], vcs, "twitch_game_vc", FALSE)
       IN IF apiresp # <<>>
          THEN conn' = s2[1] /\ committed' = s2[2]
          ELSE UNCHANGED <<conn, committed>>
    /\ curhrstart' = NextWindow(curhrstart, curhrend)[1]
    /\ curhrend' = NextWindow(curhrstart, curhrend)[2]
    /\ visited' = Append(visited, <<curhrstart, curhrend>>)
    /\ UNCHANGED <<clock, snapshots, pc, last, runstart, prevfinal>>
    /\ UNCHANGED <<storesame, aborted>>
    /\ UNCHANGED <<avgvars, schedvars, storevars, namevars>>

\* the function's locals go out of scope
Return ==
    /\ curhrstart' = 0
    /\ curhrend' = 0
    /\ last' = 0
    /\ runstart' = 0
    /\ visited' = <<>>

\* the loop has exited: man.commit()
Commit ==
    /\ pc = "loop"
    /\ ~LoopGuard(curhrend, last)
    /\ committed' = conn
    /\ prevfinal' = curhrstart
    /\ pc' = "idle"
    /\ Return
    /\ storesame' = TRUE
    /\ UNCHANGED <<clock, snapshots, conn, aborted>>
    /\ UNCHANGED <<avgvars, schedvars, storevars, namevars>>

\* a connection in autocommit mode: the rows stored so far stay when the
\* run dies
Abort_commits ==
    /\ pc = "loop"
    /\ committed' = conn
    /\ pc' = "idle"
    /\ Return
    /\ storesame' = TRUE
    /\ aborted' = IF storesame THEN <<runstart, curhrend - (curhrstart - runstart)>>
                  ELSE <<>>
    /\ UNCHANGED <<clock, snapshots, conn, prevfinal>>
    /\ UNCHANGED <<avgvars, schedvars, storevars, namevars>>

\* the process dies or a fatal error propagates before man.commit():
\* the open transaction is rolled back
Abort ==
    /\ pc = "loop"
    /\ conn' = committed
    /\ pc' = "idle"
    /\ Return
    /\ storesame' = TRUE
    /\ aborted' = IF storesame THEN <<runstart, curhrend - (curhrstart - runstart)>>
                  ELSE <<>>
    /\ UNCHANGED <<clock, snapshots, committed, prevfinal>>
    /\ UNCHANGED <<avgvars, schedvars, storevars, namevars>>

Next == Tick \/ Insert \/ StartRun \/ Iterate \/ Commit \/ Abort

Spec == Init /\ [][Next]_vars

(***************************************************************************)
(* Properties of the aggregation driver                                    *)
(***************************************************************************)
\* rows of the aggregate table that are durable
Aggregates == Table(committed, "twitch_game_vc")

\* the rows of every table, whether or not it exists yet
Rows(tables) == [t \in ModelledTables |-> Table(tables, t)]

\* lastCommittedEpoch + 3600 (the `start` of _agg_ts: the table does not
\* change between _agg_ts and the commit of the same run)
Watermark == last_postgres_update(committed, "twitch_game_vc") + sechr

\* the snapshot store holds a document strictly after the epoch
SnapshotAfter(epoch) == \E i \in 1..Len(snapshots) :
                            timestamp(snapshots[i]) > epoch

\* the run is past its loop and about to commit
AtCommit == pc = "loop" /\ ~LoopGuard(curhrend, last)

\* the key of every entity of a snapshot is in the durable aggregate table
HasRows(doc) == \A g \in DOMAIN viewercounts(doc) :
                   \E r \in Aggregates :
                       /\ r.game_id = g
                       /\ r.epoch = epoch_to_hour(timestamp(doc))

\* every snapshot of the buckets this run went through was aggregated and
\* committed before
RangeAlreadyAggregated ==
    \A i \in 1..Len(snapshots) :
        (runstart <= timestamp(snapshots[i])
            /\ timestamp(snapshots[i]) < curhrstart) => HasRows(snapshots[i])

\* C1: the durable tables change only in the step that commits at the end
\* of a run (the loop has exited and the connection's rows become durable),
\* so a run that aborts earlier leaves them as they were before the run.
C1_CommitOnlyAtRunEnd ==
    [][Rows(committed') # Rows(committed) =>
          (AtCommit /\ pc' = "idle" /\ committed' = conn)]_vars

\* C1 witness: a run holds uncommitted aggregate rows (an abort here must
\* lose them).
C1_Witness ==
    /\ pc = "loop"
    /\ Table(conn, "twitch_game_vc") # Aggregates
    /\ Aggregates # {}

\* C2: a run whose whole range was aggregated and committed before adds no
\* row to the aggregate table and leaves MAX(epoch) as it was.
C2_Idempotent ==
    [][(Commit /\ RangeAlreadyAggregated) =>
          /\ Table(committed', "twitch_game_vc") = Aggregates
          /\ last_postgres_update(committed', "twitch_game_vc")
                = last_postgres_update(committed, "twitch_game_vc")]_vars

\* C2 witness: a later run has gone again through buckets whose snapshots
\* are all aggregated, and is about to commit.
C2_Witness ==
    /\ AtCommit
    /\ RangeAlreadyAggregated
    /\ curhrstart > runstart
    /\ \E i \in 1..Len(snapshots) :
          /\ runstart <= timestamp(snapshots[i])
          /\ timestamp(snapshots[i]) < curhrstart
          /\ viewercounts(snapshots[i]) # <<>>

\* C3: the bucketStart a run resolves is at least lastCommittedEpoch + 3600.
C3_StartsAtWatermark == pc = "loop" => runstart >= Watermark

\* C4: no snapshot captured at or after lastCommittedEpoch + 3600 lies in a
\* bucket before the bucketStart the run resolved.
C4_NoSnapshotSkipped ==
    pc = "loop" =>
        \A i \in 1..Len(snapshots) :
            timestamp(snapshots[i]) >= Watermark
                => epoch_to_hour(timestamp(snapshots[i])) >= runstart

\* C5: with no snapshot strictly after the watermark the resolved bucketEnd
\* has reached the now-floor in every state of the run: the run makes no
\* iteration.
C5_SentinelEndsRun ==
    (pc = "loop" /\ ~SnapshotAfter(Watermark)) => curhrend >= last

C7_StartMonotone == (pc = "loop" /\ prevfinal # 0) => runstart >= prevfinal

\* C8: every bucket an iteration fetches and writes ends at or before the
\* now-floor of the run, which is at or before the hour of the clock.
C8_NeverCurrentHour ==
    [][(pc = "loop" /\ pc' = "loop" /\ curhrstart' # curhrstart) =>
          (curhrend <= last /\ last <= epoch_to_hour(clock))]_vars

\* C8 witness: an iteration has stored the rows of a bucket.
C8_Witness ==
    /\ pc = "loop"
    /\ curhrstart > runstart
    /\ Table(conn, "twitch_game_vc") # Aggregates

\* C9: a run whose starting bucket holds a snapshot leaves its loop only in
\* DONE, when bucketStart has reached the now-floor, so the most recent
\* complete hour [last - 3600, last) has been processed.
C9_ExitsOnlyWhenDone ==
    [][(Commit /\ docsbetween(snapshots, runstart, runstart + sechr) # <<>>)
          => curhrstart >= last]_vars

\* C10: an iteration whose range query returns nothing writes no row and
\* moves both ends of the bucket on by exactly 3600.
C10_EmptyHourAdvances ==
    [][(/\ pc = "loop"
        /\ pc' = "loop"
        /\ <<curhrstart, curhrend>>' # <<curhrstart, curhrend>>
        /\ docsbetween(snapshots, curhrstart, curhrend) = <<>>) =>
          /\ conn' = conn
          /\ committed' = committed
          /\ curhrstart' = curhrstart + 3600
          /\ curhrend' = curhrend + 3600]_vars

\* C10 witness: the run has gone through a bucket that holds no snapshot.
C10_Witness ==
    /\ pc = "loop"
    /\ curhrstart > runstart
    /\ docsbetween(snapshots, curhrstart - 3600, curhrstart) = <<>>
    /\ LoopGuard(curhrend, last)

\* a snapshot that carries at least one entity lies in the bucket
BucketHasCounts(hrstart) ==
    \E i \in 1..Len(snapshots) :
        /\ InRange(snapshots[i], hrstart, hrstart + sechr)
        /\ viewercounts(snapshots[i]) # <<>>

\* C11 (as claimed): when a run that started on a bucket with data commits,
\* the watermark lies past every bucket it processed, the empty ones too:
\* MAX(epoch) + 3600 has reached the bucketStart at which the loop exited.
C11_EmptyHourAdvancesWatermark ==
    [][(Commit /\ curhrstart > runstart /\ BucketHasCounts(runstart)) =>
          last_postgres_update(committed', "twitch_game_vc") + sechr
              >= curhrstart]_vars

\* C11 (amended): when a run commits, the watermark lies past every bucket
\* it processed that holds a snapshot with at least one entity; an hour
\* without snapshots writes no row and does not move it.
C11_WatermarkPastStoredBuckets ==
    [][Commit =>
          \A i \in 1..Len(snapshots) :
              (/\ runstart <= timestamp(snapshots[i])
               /\ timestamp(snapshots[i]) < curhrstart
               /\ viewercounts(snapshots[i]) # <<>>) =>
                  last_postgres_update(committed', "twitch_game_vc") + sechr
                      > epoch_to_hour(timestamp(snapshots[i]))]_vars

\* C11 witness: a run about to commit has stored the rows of one bucket and
\* then gone through an hour without snapshots.
C11_Witness ==
    /\ AtCommit
    /\ curhrstart > runstart + sechr
    /\ BucketHasCounts(runstart)
    /\ Table(conn, "twitch_game_vc") # Aggregates
    /\ docsbetween(snapshots, curhrstart - sechr, curhrstart) = <<>>

\* C26: a run that is aborted leaves lastCommittedEpoch as it was and none
\* of its rows behind, and the run that follows it, the snapshot store being
\* as the aborted run found it, resolves the same bucketStart and bucketEnd
\* and starts with no row of the aborted run on its connection.
C26_RetrySameWindow ==
    [][/\ Abort =>
             /\ last_postgres_update(committed', "twitch_game_vc")
                    = last_postgres_update(committed, "twitch_game_vc")
             /\ Rows(committed') = Rows(committed)
             /\ conn' = committed'
       /\ (StartRun /\ aborted # <<>>) =>
             /\ curhrstart' = aborted[1]
             /\ curhrend' = aborted[2]
             /\ Rows(conn') = Rows(committed)]_vars

\* C26 witness: a run that resolved a bucket holding data, at a time when
\* that bucket could be processed, was aborted and left nothing durable.
C26_Witness ==
    /\ pc = "idle"
    /\ aborted # <<>>
    /\ BucketHasCounts(aborted[1])
    /\ LoopGuard(aborted[2], epoch_to_hour(clock))
    /\ Aggregates = {}

(***************************************************************************)
(* PostgresManager under arbitrary batches: a client connects, calls       *)
(* store_rows with any batch of aggregate rows, commits or disconnects.    *)
(***************************************************************************)
\* rows one store_rows call may carry
MaxBatch == 2

\* three keys: two games in one bucket, one of them in a second bucket
BatchKeys == {<<1, FirstHour * sechr>>, <<2, FirstHour * sechr>>,
              <<1, (FirstHour + 1) * sechr>>}
BatchRows == {[game_id |-> k[1], epoch |-> k[2], viewers |-> v] :
                 k \in BatchKeys, v \in {10, 30}}

\* no two rows share (game_id, epoch)
KeyUnique(rows) ==
    \A r1, r2 \in rows :
        PrimaryKey("twitch_game_vc", r1) = PrimaryKey("twitch_game_vc", r2)
            => r1 = r2

\* the batches a caller builds from a mapping keyed by game: one row a key
Batches == {b \in SUBSET BatchRows : Cardinality(b) <= MaxBatch /\ KeyUnique(b)}

\* PostgresManager(): connect and initdb
ManConnect ==
    /\ conn = NoTables
    /\ committed' = initdb(committed)
    /\ conn' = initdb(committed)
    /\ UNCHANGED <<clock, snapshots, pc, curhrstart, curhrend, last, runstart,
                   prevfinal>>
    /\ UNCHANGED <<avgvars, schedvars, storevars, histvars, namevars>>

\* man.store_rows(rows, tablename, commit)
ManStoreRows ==
    /\ conn # NoTables
    /\ \E rows \in Batches, tablename \in {"twitch_game_vc", "twitch_games"},
          c \in BOOLEAN :
          LET s == store_rows(conn, committed, rows, tablename, c)
          IN /\ conn' = s[1]
             /\ committed' = s[2]
             /\ batch' = rows
             /\ batchtable' = tablename
    /\ UNCHANGED <<clock, snapshots, pc, curhrstart, curhrend, last, runstart,
                   prevfinal>>
    /\ UNCHANGED <<avgvars, schedvars, histvars, namevars>>

\* man.commit()
ManCommit ==
    /\ conn # NoTables
    /\ conn # committed
    /\ committed' = conn
    /\ UNCHANGED <<clock, snapshots, conn, pc, curhrstart, curhrend, last,
                   runstart, prevfinal>>
    /\ UNCHANGED <<avgvars, schedvars, storevars, histvars, namevars>>

\* the connection is closed with its transaction open: rollback
ManRollback ==
    /\ conn # NoTables
    /\ conn # committed
    /\ conn' = committed
    /\ UNCHANGED <<clock, snapshots, committed, pc, curhrstart, curhrend, last,
                   runstart, prevfinal>>
    /\ UNCHANGED <<avgvars, schedvars, storevars, histvars, namevars>>

NextStore == ManConnect \/ ManStoreRows \/ ManCommit \/ ManRollback

SpecStore == Init /\ [][NextStore]_vars

\* C12: the aggregate table holds at most one row per (game_id, epoch), on
\* the connection and durably, and a durable row is never changed or removed
\* by a later store_rows, commit or rollback: a conflicting row is dropped.
C12_OneRowPerKeyNeverOverwritten ==
    [][/\ KeyUnique(Table(conn', "twitch_game_vc"))
       /\ KeyUnique(Table(committed', "twitch_game_vc"))
       /\ Table(committed, "twitch_game_vc")
              \subseteq Table(committed', "twitch_game_vc")]_vars

\* C12 witness: the last batch carried a row whose key is held by a durable
\* row with another count, together with a row of a new key.
C12_Witness ==
    /\ batchtable = "twitch_game_vc"
    /\ \E r \in batch, old \in Aggregates :
          /\ PrimaryKey("twitch_game_vc", r) = PrimaryKey("twitch_game_vc", old)
          /\ r.viewers # old.viewers
          /\ old \in Table(conn, "twitch_game_vc")
    /\ \E r \in batch :
          /\ r \in Table(conn, "twitch_game_vc")
          /\ r \notin Aggregates

(***************************************************************************)
(* Aggregator.average_viewers called on arbitrary arguments                *)
(***************************************************************************)
\* entries a list passed to average_viewers may hold
MaxEntries == 3

\* the timestamps, mappings and windows of tests/test_aggregator.py, with a
\* second count for game1, an entry without games and a window that starts
\* after the first timestamp
AvTimes == {1800, 1900, 2000}
AvCounts == {("game1" :> 400) @@ ("game2" :> 1), ("game3" :> 200),
             ("game1" :> 100), <<>>}
AvWindows == {<<0, 2000>>, <<1500, 2000>>, <<1800, 2200>>, <<1900, 2200>>}
\* start = end, which only a call without entries survives
AvEmptyWindow == <<2000, 2000>>

AvEntries == {[timestamp |-> t, games |-> vc] : t \in AvTimes, vc \in AvCounts}
AvLists == UNION {[1..n -> AvEntries] : n \in 0..MaxEntries}

InitAvg ==
    /\ DriverIdle /\ SchedIdle /\ StoreIdle /\ NamesIdle
    /\ av_pc = "call"
    /\ av_entries \in AvLists
    /\ av_given = av_entries
    /\ \E w \in AvWindows \cup {AvEmptyWindow} :
          /\ w[1] < w[2] \/ av_entries = <<>>
          /\ av_start = w[1]
          /\ av_end = w[2]
    /\ av_res = <<>>

\* res = Aggregator.average_viewers(entries, start, end); entries.sort()
\* sorts the caller's list in place
AverageViewers ==
    /\ av_pc = "call"
    /\ av_res' = average_viewers(av_entries, av_start, av_end)
    /\ av_entries' = sort(av_entries)
    /\ av_pc' = "returned"
    /\ UNCHANGED <<av_given, av_start, av_end>>
    /\ UNCHANGED <<drivervars, schedvars, storevars, histvars, namevars>>

NextAvg == AverageViewers

SpecAvg == InitAvg /\ [][NextAvg]_vars

\* the entities of a list of entries
Entities(entries) ==
    UNION {DOMAIN viewercounts(entries[i]) : i \in 1..Len(entries)}

\* sum over the entries i <= k that contain the entity of
\* count_i * (t_i - t_(i-1)), with t_0 = start
RECURSIVE WeightedUpTo(_, _, _, _)
WeightedUpTo(sorted, name, start, k) ==
    IF k = 0 THEN 0
    ELSE WeightedUpTo(sorted, name, start, k - 1)
         + (IF name \in DOMAIN viewercounts(sorted[k])
            THEN viewercounts(sorted[k])[name]
                 * (timestamp(sorted[k])
                    - (IF k = 1 THEN start ELSE timestamp(sorted[k - 1])))
            ELSE 0)

\* the weighted sum of one entity over the entries in ascending order
WeightedSum(entries, name, start, end) ==
    LET sorted == sort(entries)
        n == Len(sorted)
    IN WeightedUpTo(sorted, name, start, n)
       + (IF n > 0 /\ name \in DOMAIN viewercounts(sorted[n])
          THEN viewercounts(sorted[n])[name] * (end - timestamp(sorted[n]))
          ELSE 0)

\* C13: for every entry list and window with start < end, average_viewers
\* returns for each entity of any entry floor(weightedSum / (end - start)),
\* and has no key for any other entity.
C13_FloorOfWeightedSum ==
    (av_pc = "returned" /\ av_start < av_end) =>
        av_res = [name \in Entities(av_given) |->
                     WeightedSum(av_given, name, av_start, av_end)
                         \div (av_end - av_start)]

\* C13 witness: a call on three entries given out of order, where game1 has
\* two counts and is not in the last entry, returned a non-zero average.
C13_Witness ==
    /\ av_pc = "returned"
    /\ Len(av_given) = 3
    /\ av_given # av_entries
    /\ {"game1", "game3"} \subseteq DOMAIN av_res
    /\ "game1" \notin DOMAIN viewercounts(av_entries[3])
    /\ \E i, j \in 1..3 :
          /\ "game1" \in DOMAIN viewercounts(av_given[i])
          /\ "game1" \in DOMAIN viewercounts(av_given[j])
          /\ viewercounts(av_given[i])["game1"]
                 # viewercounts(av_given[j])["game1"]
    /\ av_res["game1"] > 0

\* C14: when an entity has the same count c in every entry of a non-empty
\* list, average_viewers returns exactly c for it, however many entries
\* there are and wherever their timestamps lie.
C14_ConstantCount ==
    (av_pc = "returned" /\ av_given # <<>>) =>
        \A name \in Entities(av_given) :
            LET c == viewercounts(av_given[1])[name]
            IN (\A i \in 1..Len(av_given) :
                    /\ name \in DOMAIN viewercounts(av_given[i])
                    /\ viewercounts(av_given[i])[name] = c)
                  => av_res[name] = c

\* C14 witness: three entries that all carry game3 alone with 200 viewers,
\* at three timestamps of which one lies before the window, returned 200.
C14_Witness ==
    /\ av_pc = "returned"
    /\ Len(av_given) = 3
    /\ \A i \in 1..3 : viewercounts(av_given[i]) = ("game3" :> 200)
    /\ {timestamp(av_given[i]) : i \in 1..3} = AvTimes
    /\ av_start = 1900
    /\ av_res = ("game3" :> 200)

\* the entries of tests/test_aggregator.py
TestEntry1 == [timestamp |-> 1800, games |-> ("game1" :> 400) @@ ("game2" :> 1)]
TestEntry2 == [timestamp |-> 1900, games |-> ("game1" :> 400) @@ ("game2" :> 1)]
TestEntry3 == [timestamp |-> 2000, games |-> ("game3" :> 200)]

InWindow(entries, start, end) ==
    \A i \in 1..Len(entries) :
        start <= timestamp(entries[i]) /\ timestamp(entries[i]) <= end

\* the count an entry carries for an entity, 0 when it has none
CountOf(entry, name) ==
    IF name \in DOMAIN viewercounts(entry) THEN viewercounts(entry)[name] ELSE 0

\* integral over [start, end) of the step function in which every count
\* holds from its own timestamp until the next entry's, and the first
\* entry's count also covers [start, t_1)
ForwardIntegral(sorted, name, start, end) ==
    LET n == Len(sorted)
        covered(i) == (IF i = n THEN end ELSE timestamp(sorted[i + 1]))
                      - timestamp(sorted[i])
        RECURSIVE upto(_)
        upto(k) == IF k = 0 THEN 0
                   ELSE upto(k - 1) + CountOf(sorted[k], name) * covered(k)
    IN CountOf(sorted[1], name) * (timestamp(sorted[1]) - start) + upto(n)

\* C16 (as claimed): for entries inside the window the result is the floor
\* of the mean of the step function in which a snapshot's count holds from
\* its capturedAt until the next snapshot.
C16_HoldsUntilSuperseded ==
    (/\ av_pc = "returned"
     /\ av_given # <<>>
     /\ InWindow(av_given, av_start, av_end)) =>
        \A name \in Entities(av_given) :
            av_res[name] =
                ForwardIntegral(sort(av_given), name, av_start, av_end)
                    \div (av_end - av_start)

\* the entry whose count the code lets hold at time a: the first one, in
\* sorted order, with a later timestamp, and the last entry after all of them
Governing(sorted, a) ==
    LET later == {i \in 1..Len(sorted) : timestamp(sorted[i]) > a}
    IN IF later = {} THEN Len(sorted) ELSE Min(later)

\* integral over [a, end) of the step function in which every count holds
\* over the interval that ends at its own timestamp
RECURSIVE BackwardIntegral(_, _, _, _)
BackwardIntegral(sorted, name, a, end) ==
    IF a >= end THEN 0
    ELSE LET b == Min({end} \cup {timestamp(sorted[i]) : i \in
                          {j \in 1..Len(sorted) : timestamp(sorted[j]) > a}})
         IN CountOf(sorted[Governing(sorted, a)], name) * (b - a)
            + BackwardIntegral(sorted, name, b, end)

\* C16 (amended): for entries inside the window the result is the floor of
\* the mean of the step function in which a snapshot's count holds over the
\* interval that ends at its capturedAt (since the previous snapshot, or
\* since start), the last snapshot's count holding on until end.
C16_HoldsSincePrevious ==
    (/\ av_pc = "returned"
     /\ av_given # <<>>
     /\ InWindow(av_given, av_start, av_end)) =>
        \A name \in Entities(av_given) :
            av_res[name] =
                BackwardIntegral(sort(av_given), name, av_start, av_end)
                    \div (av_end - av_start)

\* C16 witness: a call on entries inside the window has returned a value
\* that is not the mean of the hold-until-superseded step function.
C16_Witness ==
    /\ av_pc = "returned"
    /\ Len(av_given) = 3
    /\ InWindow(av_given, av_start, av_end)
    /\ \E name \in Entities(av_given) :
          av_res[name] #
              ForwardIntegral(sort(av_given), name, av_start, av_end)
                  \div (av_end - av_start)

\* the orders in which a list of n entries can be passed
Orders(n) == {p \in [1..n -> 1..n] : \A i, j \in 1..n : i # j => p[i] # p[j]}

\* the list with its entries passed in the order p
Reordered(entries, p) == [i \in 1..Len(entries) |-> entries[p[i]]]

\* entries with equal timestamps come in the same relative order as before
TiesKept(entries, p) ==
    \A i, j \in 1..Len(entries) :
        (i < j /\ timestamp(entries[p[i]]) = timestamp(entries[p[j]]))
            => p[i] < p[j]

\* C17 (as claimed): every permutation of the input list, those that swap
\* entries with equal timestamps and different counts included, gives the
\* same mapping.
C17_OrderIrrelevant ==
    (av_pc = "returned" /\ av_start < av_end) =>
        \A p \in Orders(Len(av_given)) :
            average_viewers(Reordered(av_given, p), av_start, av_end) = av_res

\* C17 (amended): every permutation of the input list that keeps the
\* entries with equal timestamps in the same relative order gives the same
\* mapping.
C17_OrderIrrelevantButTies ==
    (av_pc = "returned" /\ av_start < av_end) =>
        \A p \in Orders(Len(av_given)) :
            TiesKept(av_given, p) =>
                average_viewers(Reordered(av_given, p), av_start, av_end)
                    = av_res

\* C17 witness: a call has returned on three entries passed out of order,
\* two of which share a timestamp and differ in their counts.
C17_Witness ==
    /\ av_pc = "returned"
    /\ Len(av_given) = 3
    /\ av_given # av_entries
    /\ \E i, j \in 1..3 :
          /\ i < j
          /\ timestamp(av_given[i]) = timestamp(av_given[j])
          /\ viewercounts(av_given[i]) # viewercounts(av_given[j])
    /\ \E p \in Orders(3) :
          /\ TiesKept(av_given, p)
          /\ Reordered(av_given, p) # av_given

\* C18: with exactly one entry every entity of the entry gets exactly its
\* count, wherever the entry's timestamp lies; with no entry the result is
\* the empty mapping, also when start = end.
C18_OneEntryOrNone ==
    av_pc = "returned" =>
        /\ Len(av_given) = 1 => av_res = viewercounts(av_given[1])
        /\ av_given = <<>> => av_res = <<>>

\* C18 witness: a call has returned on one entry that carries two games and
\* whose timestamp lies before the window.
C18_Witness ==
    /\ av_pc = "returned"
    /\ Len(av_given) = 1
    /\ timestamp(av_given[1]) < av_start
    /\ av_res = ("game1" :> 400) @@ ("game2" :> 1)

\* a call without entries has returned for a window with start = end
C18_EmptyReturned ==
    /\ av_pc = "returned"
    /\ av_given = <<>>
    /\ av_start = av_end

(***************************************************************************)
(* Scraper.scrape: the poll loop around self.run()                         *)
(***************************************************************************)
\* seconds of wall-clock time after which no further iteration is started
MaxTime == 8
\* largest update_interval a scraper is configured with
MaxInterval == 3

\* what self.run() may raise: the two classes scrape catches, and two it
\* does not
Exceptions == {"ConnectionError", "ServerSelectionTimeoutError",
               "ReadTimeout", "KeyError"}

\* an except clause for requests' ConnectionError only
Handled_connection_only(exc) == exc = "ConnectionError"

\* except requests.exceptions.ConnectionError /
\* except pymongo.errors.ServerSelectionTimeoutError
Handled(exc) == exc \in {"ConnectionError", "ServerSelectionTimeoutError"}

\* the remainder computed from half the interval
TimeToSleep_half(interval, now, started) ==
    interval \div 2 - (now - started)

\* the elapsed time added instead of subtracted
TimeToSleep_plus(interval, now, started) == interval + (now - started)

\* time_to_sleep = self.update_interval - (time.time() - start_time)
TimeToSleep(interval, now, started) == interval - (now - started)

\* start_time is -1 while no iteration has begun
InitSched ==
    /\ DriverIdle /\ AvgIdle /\ StoreIdle /\ NamesIdle
    /\ sched = "top"
    /\ wall = 0
    /\ update_interval \in 1..MaxInterval
    /\ start_time = -1
    /\ time_to_sleep = 0
    /\ raised = "none"
    /\ inflight = 0
    /\ prev_start = -1

\* a loop that hands self.run() to a thread of its own and goes on to the
\* sleep without waiting for it
LoopTop_detached ==
    /\ sched = "top"
    /\ wall < MaxTime
    /\ start_time' = wall
    /\ prev_start' = start_time
    /\ inflight' = inflight + 1
    /\ sched' = "ran"
    /\ UNCHANGED <<wall, update_interval, time_to_sleep, raised>>
    /\ UNCHANGED <<drivervars, avgvars, storevars, histvars, namevars>>

\* a loop that measures from the previous start plus the interval rather
\* than from the clock: iterations after a slow one catch up
LoopTop_scheduled ==
    /\ sched = "top"
    /\ wall < MaxTime
    /\ start_time' = IF start_time < 0 THEN wall
                     ELSE start_time + update_interval
    /\ prev_start' = start_time
    /\ inflight' = inflight + 1
    /\ sched' = "run"
    /\ UNCHANGED <<wall, update_interval, time_to_sleep, raised>>
    /\ UNCHANGED <<drivervars, avgvars, storevars, histvars, namevars>>

\* while True: start_time = time.time()
LoopTop ==
    /\ sched = "top"
    /\ wall < MaxTime
    /\ start_time' = wall
    /\ prev_start' = start_time
    /\ inflight' = inflight + 1
    /\ sched' = "run"
    /\ UNCHANGED <<wall, update_interval, time_to_sleep, raised>>
    /\ UNCHANGED <<drivervars, avgvars, storevars, histvars, namevars>>

\* a loop that calls self.run() again when it raised a caught exception
Run_retry ==
    /\ sched = "run"
    /\ \E d \in 0..(update_interval + 1), exc \in Exceptions \cup {"none"} :
          /\ wall' = wall + d
          /\ raised' = exc
          /\ sched' = IF exc = "none" THEN "ran"
                      ELSE IF Handled(exc) THEN "run" ELSE "dead"
          /\ inflight' = IF exc # "none" /\ Handled(exc) THEN inflight
                         ELSE inflight - 1
    /\ UNCHANGED <<update_interval, start_time, time_to_sleep, prev_start>>
    /\ UNCHANGED <<drivervars, avgvars, storevars, histvars, namevars>>

\* try: self.run() ... except: it takes d seconds and returns or raises;
\* an exception without an except clause leaves the loop
Run ==
    /\ sched = "run"
    /\ \E d \in 0..(update_interval + 1), exc \in Exceptions \cup {"none"} :
          /\ wall' = wall + d
          /\ raised' = exc
          /\ sched' = IF exc = "none" \/ Handled(exc) THEN "ran" ELSE "dead"
          /\ inflight' = inflight - 1
    /\ UNCHANGED <<update_interval, start_time, time_to_sleep, prev_start>>
    /\ UNCHANGED <<drivervars, avgvars, storevars, histvars, namevars>>

\* time_to_sleep = ...; if time_to_sleep > 0: time.sleep(time_to_sleep),
\* which suspends for the time asked or a little longer
Sleep ==
    /\ sched = "ran"
    /\ time_to_sleep' = TimeToSleep(update_interval, wall, start_time)
    /\ IF time_to_sleep' > 0
       THEN \E late \in {0, 1} : wall' = wall + time_to_sleep' + late
       ELSE wall' = wall
    /\ sched' = "top"
    /\ UNCHANGED <<update_interval, start_time, raised, inflight, prev_start>>
    /\ UNCHANGED <<drivervars, avgvars, storevars, histvars, namevars>>

NextSched == LoopTop \/ Run \/ Sleep

SpecSched == InitSched /\ [][NextSched]_vars

\* C19: a ConnectionError or ServerSelectionTimeoutError raised by run()
\* does not end the loop: the iteration goes on to the sleep and from there
\* to the next start; any other exception ends the loop, and nothing else
\* does.
C19_TransientCaught ==
    [][/\ (sched = "run" /\ raised' \in {"ConnectionError",
                                          "ServerSelectionTimeoutError"})
             => sched' = "ran"
       /\ (sched = "run" /\ raised' \in {"ReadTimeout", "KeyError"})
             => sched' = "dead"
       /\ sched = "ran" => sched' = "top"
       /\ sched = "top" => sched' = "run"
       /\ sched' = "dead" => raised' \in {"ReadTimeout", "KeyError"}
       /\ sched # "dead"]_vars

\* C19 witness: the iteration after one in which run() raised a
\* ServerSelectionTimeoutError has started.
C19_Witness ==
    /\ sched = "run"
    /\ raised = "ServerSelectionTimeoutError"
    /\ prev_start >= 0

\* the loop has ended on an exception that scrape does not catch
C19_Terminated ==
    /\ sched = "dead"
    /\ raised = "KeyError"

\* C20: the start times of two consecutive invocations of run() differ by
\* at least update_interval, whether the earlier one returned or raised.
C20_AtMostOncePerInterval ==
    prev_start >= 0 => start_time - prev_start >= update_interval

\* C20 witness: after an invocation that raised a ConnectionError and took
\* less than the interval, the next one has started exactly update_interval
\* after it.
C20_Witness ==
    /\ sched = "run"
    /\ raised = "ConnectionError"
    /\ prev_start >= 0
    /\ time_to_sleep > 0
    /\ start_time - prev_start = update_interval

\* C21: when run() took d < update_interval the loop asks for a sleep of
\* exactly update_interval - d, so that a sleep that returns on time ends
\* update_interval after the start; when d >= update_interval it does not
\* sleep; and every iteration takes its start from the clock as it then
\* stands, so a slow iteration is not followed by shortened periods.
C21_SleepsTheRemainder ==
    [][/\ (sched = "ran" /\ wall - start_time < update_interval) =>
             /\ time_to_sleep' = update_interval - (wall - start_time)
             /\ wall' >= wall + time_to_sleep'
             /\ wall' = wall + time_to_sleep'
                    => wall' - start_time = update_interval
       /\ (sched = "ran" /\ wall - start_time >= update_interval) =>
             /\ time_to_sleep' <= 0
             /\ wall' = wall
       /\ sched = "top" =>
             /\ start_time' = wall
             /\ start_time >= 0 => start_time' - start_time >= update_interval
       ]_vars

\* C21 witness: run() took longer than the interval, no sleep was asked for
\* and the next invocation has started at once.
C21_Witness ==
    /\ sched = "run"
    /\ prev_start >= 0
    /\ time_to_sleep < 0
    /\ start_time = wall
    /\ start_time - prev_start = update_interval + 1

\* run() was faster than the interval and the sleep has returned on time
C21_SleptTheRemainder ==
    /\ sched = "top"
    /\ time_to_sleep > 0
    /\ time_to_sleep < update_interval
    /\ wall - start_time = update_interval

\* C22: run() is invoked once an iteration: it is entered only from the top
\* of the loop and never again when it has raised, the start time is kept
\* over the failed attempt, and after a caught exception the loop asks for
\* the sleep update_interval - (now - start_time) and sleeps it when it is
\* positive.
C22_NoRetryWithinIteration ==
    [][/\ sched' = "run" => sched = "top"
       /\ sched = "run" => (sched' \in {"ran", "dead"}
                            /\ start_time' = start_time)
       /\ (sched = "ran" /\ Handled(raised)) =>
             /\ start_time' = start_time
             /\ time_to_sleep' = update_interval - (wall - start_time)
             /\ IF time_to_sleep' > 0
                THEN wall' >= wall + time_to_sleep'
                ELSE wall' = wall
             /\ sched' = "top"]_vars

\* C22 witness: run() raised a ConnectionError some time after the start, and
\* the loop has slept what was left of the interval.
C22_Witness ==
    /\ sched = "top"
    /\ raised = "ConnectionError"
    /\ time_to_sleep > 0
    /\ time_to_sleep < update_interval
    /\ wall >= start_time + update_interval

\* C23: at most one call of run() is in progress in every reachable state,
\* and a call starts only from the top of the loop, when the previous call
\* has returned or raised and the sleep computed after it, if any, is over.
C23_StrictlySequential ==
    [][/\ inflight' <= 1
       /\ inflight' > inflight =>
             /\ inflight = 0
             /\ sched = "top"
             /\ (start_time >= 0 /\ time_to_sleep > 0)
                    => wall >= start_time + update_interval]_vars

\* C23 witness: a second call of run() is in progress, the first having
\* returned and the sleep after it being over.
C23_Witness ==
    /\ inflight = 1
    /\ sched = "run"
    /\ prev_start >= 0
    /\ raised = "none"
    /\ time_to_sleep > 0

\* C24: every sleep is computed and finite: when update_interval minus the
\* elapsed time is positive the loop sleeps, for a time asked that is
\* greater than 0 and at most update_interval; when it is 0 or less the
\* loop does not sleep.
C24_SleepBounded ==
    [][sched = "ran" =>
          IF update_interval - (wall - start_time) > 0
          THEN /\ time_to_sleep' > 0
               /\ time_to_sleep' <= update_interval
               /\ wall' > wall
          ELSE /\ time_to_sleep' <= 0
               /\ wall' = wall]_vars

\* C24 witness: run() returned at once and the loop has slept the whole
\* interval, the longest sleep there is.
C24_Witness ==
    /\ sched = "top"
    /\ start_time >= 0
    /\ time_to_sleep = update_interval
    /\ wall >= start_time + update_interval

(***************************************************************************)
(* The poll loop without an end of time: when the modelled stretch of      *)
(* time is used up the clock's origin is moved to the present, which keeps *)
(* the state space finite and changes no difference the loop computes.     *)
(***************************************************************************)
\* between two iterations: time is counted from now on
Rebase ==
    /\ sched = "top"
    /\ wall >= MaxTime
    /\ wall' = 0
    /\ start_time' = -1
    /\ prev_start' = -1
    /\ time_to_sleep' = 0
    /\ UNCHANGED <<sched, update_interval, raised, inflight>>
    /\ UNCHANGED <<drivervars, avgvars, storevars, histvars, namevars>>

NextSchedLive == LoopTop \/ Run \/ Sleep \/ Rebase

\* the loop's thread keeps running: the statement after the current one is
\* executed, self.run() returns or raises, and time.sleep returns
SpecSchedLive ==
    /\ InitSched
    /\ [][NextSchedLive]_vars
    /\ WF_vars(LoopTop)
    /\ WF_vars(Run)
    /\ WF_vars(Sleep)
    /\ WF_vars(Rebase)

\* C25: if run() never raises anything but a ConnectionError or a
\* ServerSelectionTimeoutError, then run() is invoked again and again, each
\* invocation is followed by the sleep step, and the loop never ends.
C25_RunsForever ==
    [](raised \notin {"ReadTimeout", "KeyError"}) =>
        /\ []<>(sched = "run")
        /\ []<>(sched = "ran")
        /\ [](sched # "dead")

\* C25 witness: beyond the modelled stretch of time, after an invocation
\* that raised a ServerSelectionTimeoutError, run() has been invoked again.
C25_Witness ==
    /\ sched = "run"
    /\ prev_start = -1
    /\ raised = "ServerSelectionTimeoutError"

(***************************************************************************)
(* PostgresManager.game_name_to_id on a manager that knows two esports     *)
(* games, against a game table that holds any of four rows                 *)
(***************************************************************************)
\* SELECTs the modelled calls may execute
MaxQueries == 3

\* self.esports_games, from the configuration
esports_games == {"Dota 2", "Hearthstone"}

\* names the Twitch API may give
Names == {"Dota 2", "DOTA 2", "dota 2", "Hearthstone", "Tetris"}

\* str.lower() on those names
lower(name) ==
    CASE name \in {"Dota 2", "DOTA 2", "dota 2"} -> "dota 2"
      [] name = "Hearthstone" -> "hearthstone"
      [] name = "Tetris" -> "tetris"
      [] OTHER -> name

\* rows table game may hold: name is UNIQUE, game_id the PRIMARY KEY
GameRows == {[name |-> "Dota 2", game_id |-> 1],
             [name |-> "Hearthstone", game_id |-> 2],
             [name |-> "dota 2", game_id |-> 3],
             [name |-> "Tetris", game_id |-> 4]}

\* the name used as given, without the loop over self.esports_games
KnownName_exact(name) == name

\* the casing fix: a name not in self.esports_games is replaced by the known
\* game that equals it in lower case, if there is one
KnownName(name) ==
    IF name \in esports_games THEN name
    ELSE IF \E game \in esports_games : lower(name) = lower(game)
         THEN CHOOSE game \in esports_games : lower(name) = lower(game)
         ELSE name

\* game_name_to_id returning nothing when the SELECT finds no row
game_name_to_id_silent(cache, table, name) ==
    LET n == KnownName(name)
        rows == {r \in table : r.name = n}
    IN IF n \in DOMAIN cache
       THEN [cache |-> cache, queried |-> FALSE, raised |-> "none",
             returned |-> {cache[n]}]
       ELSE IF rows = {}
            THEN [cache |-> cache, queried |-> TRUE, raised |-> "none",
                  returned |-> {}]
            ELSE LET id == (CHOOSE r \in rows : TRUE).game_id
                 IN [cache |-> (n :> id) @@ cache, queried |-> TRUE,
                     raised |-> "none", returned |-> {id}]

\* game_name_to_id: the cache after the call, whether the SELECT was
\* executed, and what the call raised or returned; fetchone() is None when
\* no row matches, and None[0] raises TypeError before the cache is written
game_name_to_id(cache, table, name) ==
    LET n == KnownName(name)
        rows == {r \in table : r.name = n}
    IN IF n \in DOMAIN cache
       THEN [cache |-> cache, queried |-> FALSE, raised |-> "none",
             returned |-> {cache[n]}]
       ELSE IF rows = {}
            THEN [cache |-> cache, queried |-> TRUE, raised |-> "TypeError",
                  returned |-> {}]
            ELSE LET id == (CHOOSE r \in rows : TRUE).game_id
                 IN [cache |-> (n :> id) @@ cache, queried |-> TRUE,
                     raised |-> "none", returned |-> {id}]

InitNames ==
    /\ DriverIdle /\ AvgIdle /\ SchedIdle /\ StoreIdle
    /\ gamename_cache = <<>>
    /\ gametable \in SUBSET GameRows
    /\ dbqueries = 0
    /\ lookup = [name |-> "none", queried |-> FALSE, raised |-> "none",
                 returned |-> {}]

\* man.game_name_to_id(name)
GameNameToId ==
    /\ \E name \in Names :
          LET r == game_name_to_id(gamename_cache, gametable, name)
          IN /\ r.queried => dbqueries < MaxQueries
             /\ gamename_cache' = r.cache
             /\ dbqueries' = IF r.queried THEN dbqueries + 1 ELSE dbqueries
             /\ lookup' = [name |-> name, queried |-> r.queried,
                           raised |-> r.raised, returned |-> r.returned]
    /\ UNCHANGED gametable
    /\ UNCHANGED <<drivervars, avgvars, schedvars, storevars, histvars>>

NextNames == GameNameToId

SpecNames == InitNames /\ [][NextNames]_vars

\* C27: a call with a name that equals a known game in lower case resolves
\* to the id cached for that game: when the game has been resolved before,
\* the call executes no SELECT, returns the cached id and leaves the cache
\* as it is; when the call itself resolves it, the id it returns is the one
\* later calls get.
C27_CachedCaseInsensitive ==
    [][\A game \in esports_games :
          lower(lookup'.name) = lower(game) =>
              /\ game \in DOMAIN gamename_cache =>
                    /\ dbqueries' = dbqueries
                    /\ ~lookup'.queried
                    /\ lookup'.returned = {gamename_cache[game]}
                    /\ gamename_cache' = gamename_cache
              /\ lookup'.raised = "none" =>
                    /\ game \in DOMAIN gamename_cache'
                    /\ lookup'.returned = {gamename_cache'[game]}]_vars

\* C27 witness: "dota 2" has been answered from the cache with the id of the
\* known game "Dota 2", although the table holds a row named "dota 2" with
\* another id.
C27_Witness ==
    /\ lookup.name = "dota 2"
    /\ ~lookup.queried
    /\ lookup.returned = {1}
    /\ [name |-> "dota 2", game_id |-> 3] \in gametable
    /\ dbqueries = 1

\* C28: a call for a name for which the game table holds no row in any
\* casing raises and returns nothing, and no call that raises changes the
\* cache; the cache never holds a value that is not an id of the table.
C28_UnresolvedIsFatal ==
    [][/\ (\A r \in gametable : lower(r.name) # lower(lookup'.name)) =>
             /\ lookup'.raised = "TypeError"
             /\ lookup'.returned = {}
       /\ lookup'.raised # "none" =>
             /\ lookup'.returned = {}
             /\ gamename_cache' = gamename_cache
       /\ \A n \in DOMAIN gamename_cache' :
             \E r \in gametable : r.game_id = gamename_cache'[n]]_vars

\* C28 witness: after a successful resolution, a call for "Tetris", which
\* the table does not hold, has raised and left the cache without an entry
\* for it.
C28_Witness ==
    /\ lookup.name = "Tetris"
    /\ lookup.raised = "TypeError"
    /\ lookup.returned = {}
    /\ DOMAIN gamename_cache = {"Dota 2"}
    /\ dbqueries = 2

(***************************************************************************)
(* The buckets of a run                                                    *)
(***************************************************************************)
\* C29: in every state of a run the bucket starts on an hour and ends one
\* hour later, every bucket an iteration was given did so too, and every
\* aggregate row, in the session's view or committed, carries an epoch that
\* is a multiple of 3600.
C29_HourAligned ==
    /\ pc = "loop" =>
          /\ curhrstart % sechr = 0
          /\ curhrend = curhrstart + sechr
          /\ \A k \in 1..Len(visited) :
                /\ visited[k][1] % sechr = 0
                /\ visited[k][2] = visited[k][1] + sechr
    /\ \A r \in Table(conn, "twitch_game_vc") \cup Aggregates :
          r.epoch % sechr = 0

\* C29 witness: a run resolved its window from a snapshot taken at half
\* past the hour, and the iteration over that hour has written its rows.
C29_Witness ==
    /\ pc = "loop"
    /\ Len(visited) >= 1
    /\ \E i \in 1..Len(snapshots) :
          /\ timestamp(snapshots[i]) = runstart + 1800
          /\ \A j \in 1..Len(snapshots) :
                timestamp(snapshots[j]) >= timestamp(snapshots[i])
    /\ \E r \in Table(conn, "twitch_game_vc") : r.epoch = runstart

\* snapshot i is in the result of the range query of the k-th iteration
FetchedBy(i, k) ==
    LET d == docsbetween(snapshots, visited[k][1], visited[k][2])
    IN \E j \in 1..Len(d) : d[j] = snapshots[i]

\* C30: the buckets of a run ascend, each starting where the one before
\* ended, from the resolved start up to the current bucket; and every
\* snapshot captured in [first bucket start, current bucket start) is in the
\* range query's result of exactly one iteration, the one whose bucket
\* holds its timestamp.
C30_EachSnapshotInOneBucket ==
    pc = "loop" =>
       /\ \A k \in 1..Len(visited) :
             /\ visited[k][1] < visited[k][2]
             /\ visited[k][1] = (IF k = 1 THEN runstart ELSE visited[k - 1][2])
       /\ curhrstart = (IF visited = <<>> THEN runstart
                        ELSE visited[Len(visited)][2])
       /\ \A i \in 1..Len(snapshots) :
             (runstart <= timestamp(snapshots[i])
                 /\ timestamp(snapshots[i]) < curhrstart)
             => \E k \in 1..Len(visited) :
                   /\ visited[k][1] <= timestamp(snapshots[i])
                   /\ timestamp(snapshots[i]) < visited[k][2]
                   /\ \A m \in 1..Len(visited) : FetchedBy(i, m) <=> m = k

\* C30 witness: a run has made two iterations, and a snapshot taken exactly
\* on the boundary between the two buckets is stored.
C30_Witness ==
    /\ pc = "loop"
    /\ Len(visited) >= 2
    /\ \E i \in 1..Len(snapshots) :
          /\ timestamp(snapshots[i]) = visited[1][2]
          /\ FetchedBy(i, 2)

(***************************************************************************)
(* Range of the averages                                                   *)
(***************************************************************************)
\* every timestamp of the list lies in [start, end]
AllInWindow(entries, start, end) ==
    \A i \in 1..Len(entries) :
        start <= timestamp(entries[i]) /\ timestamp(entries[i]) <= end

\* no entry carries a negative count
NonNegative(entries) ==
    \A i \in 1..Len(entries) :
        \A name \in DOMAIN viewercounts(entries[i]) :
            viewercounts(entries[i])[name] >= 0

\* the largest count an entity has in any entry
LargestCount(entries, name) ==
    Max({viewercounts(entries[i])[name] :
           i \in {j \in 1..Len(entries) :
                    name \in DOMAIN viewercounts(entries[j])}})

\* C31: when every timestamp lies in [start, end] and no count is negative,
\* every value average_viewers returns is at least 0 and at most the largest
\* count its entity has in any entry.
C31_WithinCounts ==
    (/\ av_pc = "returned"
     /\ AllInWindow(av_given, av_start, av_end)
     /\ NonNegative(av_given))
    => \A name \in DOMAIN av_res :
          /\ av_res[name] >= 0
          /\ av_res[name] <= LargestCount(av_given, name)

\* C31 witness: a call on entries that all lie in the window, given out of
\* order, where game1 has both its counts and game3 is in one entry only,
\* returned averages strictly between 0 and the largest count for both.
C31_Witness ==
    /\ av_pc = "returned"
    /\ Len(av_given) = 3
    /\ av_given # av_entries
    /\ AllInWindow(av_given, av_start, av_end)
    /\ NonNegative(av_given)
    /\ {"game1", "game3"} \subseteq DOMAIN av_res
    /\ LargestCount(av_given, "game1") = 400
    /\ \E i \in 1..3 : viewercounts(av_given[i]) = ("game1" :> 100)
    /\ av_res["game1"] > 0
    /\ av_res["game1"] < 400
    /\ av_res["game3"] > 0
    /\ av_res["game3"] < 200

(***************************************************************************)
(* The caller's list                                                       *)
(***************************************************************************)
\* C33: a call of average_viewers leaves the list it was given as it was,
\* the same entries in the same order.
C33_EntriesUnchanged == av_pc = "returned" => av_entries = av_given

(***************************************************************************)
(* Termination of a run.  agg_twitch_games is straight-line code around    *)
(* one loop: when a store call returns, the next statement runs.  NextRun  *)
(* is the driver whose store calls all return (no Abort), with weak        *)
(* fairness on the loop body and on the commit that follows the loop.      *)
(* How long a run lasts does not depend on what the stored responses       *)
(* carry, so here every response carries counts; an iteration still takes  *)
(* either branch of `if apiresp`, by the hours that hold no snapshot.      *)
(***************************************************************************)
\* a scraper stores an API response that carries games
InsertCounted ==
    /\ Len(snapshots) < MaxSnapshots
    /\ \E vc \in ViewerCounts \ {<<>>} :
          snapshots' = Append(snapshots, [timestamp |-> clock, games |-> vc])
    /\ storesame' = (pc = "idle")
    /\ aborted' = <<>>
    /\ UNCHANGED visited
    /\ UNCHANGED <<clock, committed, conn, pc, curhrstart, curhrend, last,
                   runstart, prevfinal>>
    /\ UNCHANGED <<avgvars, schedvars, storevars, namevars>>

NextRun == Tick \/ InsertCounted \/ StartRun \/ Iterate \/ Commit

\* Iterate is enabled exactly when its two guards hold: the rest of it
\* assigns, and it always extends `visited`
IterateEnabled == pc = "loop" /\ LoopGuard(curhrend, last)

\* WF_vars(Iterate), written out with IterateEnabled for
\* ENABLED <<Iterate>>_vars
FairIterate == []<>(~IterateEnabled) \/ []<><<Iterate>>_vars

SpecRun == Init /\ [][NextRun]_vars /\ FairIterate /\ WF_vars(Commit)

\* the hour buckets between the resolved curhrend and `last`
BucketsToGo ==
    IF last > runstart + sechr THEN (last - (runstart + sechr)) \div sechr
    ELSE 0

\* C32: a run whose store calls return makes at most as many iterations as
\* there are hour buckets between the curhrend resolved at its start and
\* `last`, the hour of the clock read once at its start; it has made
\* exactly that many when the loop exits, and it then commits and returns.
C32_RunTerminates ==
    /\ [](pc = "loop" =>
            /\ Len(visited) <= BucketsToGo
            /\ ~LoopGuard(curhrend, last) => Len(visited) = BucketsToGo)
    /\ (pc = "loop") ~> (pc = "idle" /\ conn = committed)

\* C32 witness: a run that had two buckets to go has made its two
\* iterations while the clock moved on, and is at its commit.
C32_Witness ==
    /\ pc = "loop"
    /\ ~LoopGuard(curhrend, last)
    /\ BucketsToGo = 2
    /\ Len(visited) = 2
    /\ clock > last

TypeOK ==
    /\ clock \in TimePoints
    /\ Len(snapshots) <= MaxSnapshots
    /\ pc \in {"idle", "loop"}
====
